---- MODULE Spec2Model ----
(***************************************************************************)
(* A model of the BSP speech parser (src/bsp_speech_parser.py and the      *)
(* earlier script src/main.py): date normalisation, display-date           *)
(* conversion, text cleaning, record extraction and the fetch/save         *)
(* pipeline.                                                               *)
(*                                                                         *)
(* Text is a sequence of one-character strings, so that splitting,         *)
(* suffix tests, pattern matching and formatting are computed character by *)
(* character as the Python code computes them.                             *)
(***************************************************************************)
EXTENDS Integers, Sequences, FiniteSets, TLC

VARIABLES
    nowUtc,        \* the wall clock, as a UTC datetime record
    tz,            \* the machine's local offset from UTC, in hours
    outputFolder,  \* whether the parser instance has an output folder
    last,          \* the last pipeline call: its arguments, response and outcome
    files,         \* the files on disk: the response each was written from
    responded,     \* per operation, the calls so far that received a response
    dateIn,        \* parse_date: the argument
    dateOut,       \* parse_date: the returned string or the raised error
    utcIn,         \* ph_time_from_utc: the argument
    phOut,         \* ph_time_from_utc: the datetime, or NoTime for None
    textIn,        \* fix_encoding, clean_html_content: the argument
    textOut,       \* fix_encoding, clean_html_content: the returned text
    speechesIn,    \* extract_speech_data: the raw records
    speechesOut,   \* extract_speech_data: the cleaned records
    op             \* the operation that produced the current state

vars == <<nowUtc, tz, outputFolder, last, files, responded, dateIn, dateOut, utcIn, phOut,
          textIn, textOut, speechesIn, speechesOut, op>>

\* F of the value of v, with v evaluated once, as an assignment to a local
\* variable evaluates its right-hand side once
Bind(v, F(_)) == CHOOSE r \in {F(x) : x \in {v}} : TRUE

----------------------------------------------------------------------------
(* Characters and numbers *)

Digits == <<"0", "1", "2", "3", "4", "5", "6", "7", "8", "9">>

DigitChars == {Digits[i] : i \in 1..10}

DigitVal(c) == CHOOSE n \in 0..9 : Digits[n + 1] = c

IsSpace(c) == c \in {" ", "\n", "\t"}

RECURSIVE NumValTo(_, _)
NumValTo(s, n) == IF n = 0 THEN 0
                  ELSE (10 * NumValTo(s, n - 1)) + DigitVal(s[n])

\* the number a string of digits denotes
NumVal(text) == Bind(text, LAMBDA s : NumValTo(s, Len(s)))

AllDigits(text) ==
    Bind(text, LAMBDA s : s # <<>> /\ \A i \in 1..Len(s) : s[i] \in DigitChars)

\* str.strip() restricted to the whitespace of the alphabet
Strip(text) ==
    Bind(text, LAMBDA s :
        Bind({i \in 1..Len(s) : ~IsSpace(s[i])}, LAMBDA keep :
            IF keep = {} THEN <<>>
            ELSE SubSeq(s, CHOOSE i \in keep : \A j \in keep : i <= j,
                           CHOOSE i \in keep : \A j \in keep : j <= i)))

\* int(text): surrounding whitespace is ignored, then only digits may remain
IntOk(s) == AllDigits(Strip(s))

IntVal(s) == NumVal(Strip(s))

\* the n-th smallest member of a set of positions
Nth(P, n) == CHOOSE p \in P : Cardinality({q \in P : q < p}) = n - 1

\* str.split(sep): the list of pieces between occurrences of sep
SplitOn(text, sep) ==
    Bind(text, LAMBDA s :
        Bind({i \in 1..Len(s) : s[i] = sep}, LAMBDA P :
            [j \in 1..(Cardinality(P) + 1) |->
                SubSeq(s,
                       IF j = 1 THEN 1 ELSE Nth(P, j - 1) + 1,
                       IF j = Cardinality(P) + 1 THEN Len(s) ELSE Nth(P, j) - 1)]))

Contains(text, c) == Bind(text, LAMBDA s : \E i \in 1..Len(s) : s[i] = c)

EndsWith(text, c) == Bind(text, LAMBDA s : s # <<>> /\ s[Len(s)] = c)

Pad2(n) == <<Digits[((n \div 10) % 10) + 1], Digits[(n % 10) + 1]>>

Pad4(n) == Pad2(n \div 100) \o Pad2(n % 100)

\* the decimal numeral of n without padding
RECURSIVE Numeral(_)
Numeral(n) == IF n < 10 THEN <<Digits[n + 1]>>
              ELSE Numeral(n \div 10) \o <<Digits[(n % 10) + 1]>>

----------------------------------------------------------------------------
(* datetime: the proleptic Gregorian calendar of Python's datetime module *)

IsLeap(y) == y % 4 = 0 /\ (y % 100 # 0 \/ y % 400 = 0)

DaysInMonth(y, m) ==
    IF m = 2 THEN (IF IsLeap(y) THEN 29 ELSE 28)
    ELSE IF m \in {4, 6, 9, 11} THEN 30 ELSE 31

\* datetime(y, m, d, H, M, S) raises ValueError outside these ranges
ValidDateTime(y, m, d, H, M, S) ==
    /\ y \in 1..9999
    /\ m \in 1..12
    /\ d >= 1 /\ d <= DaysInMonth(y, m)
    /\ H \in 0..23 /\ M \in 0..59 /\ S \in 0..59

DT(y, m, d, H, M, S) == [y |-> y, m |-> m, d |-> d, H |-> H, M |-> M, S |-> S]

DaysBeforeYear(y) ==
    ((y - 1) * 365) + ((y - 1) \div 4) - ((y - 1) \div 100) + ((y - 1) \div 400)

RECURSIVE DaysBeforeMonth(_, _)
DaysBeforeMonth(y, m) ==
    IF m = 1 THEN 0 ELSE DaysBeforeMonth(y, m - 1) + DaysInMonth(y, m - 1)

\* date.toordinal(): day 1 is 0001-01-01
ToOrdinal(y, m, d) == DaysBeforeYear(y) + DaysBeforeMonth(y, m) + d

\* date.fromordinal(n), for an ordinal within the years 1..9999
FromOrdinal(n) ==
    Bind(CHOOSE c \in ((n \div 366) + 1)..(((n - 1) \div 365) + 1) :
             DaysBeforeYear(c) < n /\ n <= DaysBeforeYear(c + 1),
         LAMBDA y :
    Bind(CHOOSE c \in 1..12 :
             /\ DaysBeforeMonth(y, c) < n - DaysBeforeYear(y)
             /\ n - DaysBeforeYear(y) <= DaysBeforeMonth(y, c) + DaysInMonth(y, c),
         LAMBDA m :
    [y |-> y, m |-> m, d |-> n - DaysBeforeYear(y) - DaysBeforeMonth(y, m)]))

MaxOrdinal == ToOrdinal(9999, 12, 31)

\* datetime + timedelta(hours=h): through the ordinal, as datetime.__add__ does;
\* a result outside the years 1..9999 is Python's OverflowError
AddHours(time, h) ==
    Bind(time, LAMBDA t :
    Bind(IF t.H + h < 0 THEN -1 ELSE IF t.H + h >= 24 THEN 1 ELSE 0, LAMBDA days :
    Bind(ToOrdinal(t.y, t.m, t.d) + days, LAMBDA n :
        IF n < 1 \/ n > MaxOrdinal
        THEN [ok |-> FALSE, cause |-> "date value out of range"]
        ELSE Bind(FromOrdinal(n), LAMBDA day :
                 [ok |-> TRUE,
                  t |-> DT(day.y, day.m, day.d, t.H + h - (24 * days), t.M, t.S)]))))

\* strftime("%Y-%m-%dT%H:%M:%S.000Z")
FormatQueryInstant(t) ==
    Pad4(t.y) \o <<"-">> \o Pad2(t.m) \o <<"-">> \o Pad2(t.d) \o <<"T">>
    \o Pad2(t.H) \o <<":">> \o Pad2(t.M) \o <<":">> \o Pad2(t.S)
    \o <<".", "0", "0", "0", "Z">>

\* datetime.now(): the wall clock in the machine's local zone, without tzinfo
LocalNow(utc, offset) == AddHours(utc, offset).t

----------------------------------------------------------------------------
(* dateutil.parser.parse, on the forms the model feeds it:                 *)
(*   M/D/YYYY             month first, no zone                              *)
(*   M/D HH:MM            the year of the default date (today), no zone     *)
(*   YYYY-MM-DD           no zone                                           *)
(*   YYYY-MM-DDTHH:MM:SS  with an optional .fff and an optional Z (UTC)     *)
(* Anything else is rejected with ParserError.                             *)

NoParse == [ok |-> FALSE, cause |-> "Unknown string format"]

Parsed(y, m, d, H, M, S, zone) ==
    IF ValidDateTime(y, m, d, H, M, S)
    THEN [ok |-> TRUE, t |-> DT(y, m, d, H, M, S), zone |-> zone]
    ELSE NoParse

\* one or two digits
Num12(s) == Len(s) \in 1..2 /\ AllDigits(s)

Num2(s) == Len(s) = 2 /\ AllDigits(s)

Num4(s) == Len(s) = 4 /\ AllDigits(s)

\* HH:MM
ParseClock(s) ==
    Bind(SplitOn(s, ":"), LAMBDA p :
        IF Len(p) = 2 /\ Num12(p[1]) /\ Num2(p[2])
        THEN [ok |-> TRUE, H |-> NumVal(p[1]), M |-> NumVal(p[2])]
        ELSE [ok |-> FALSE])

\* M/D/YYYY, or M/D HH:MM in the year of today
ParseSlashForm(s, today) ==
    Bind(SplitOn(s, "/"), LAMBDA p :
        IF Len(p) = 3 /\ Num12(p[1]) /\ Num12(p[2]) /\ Num4(p[3])
        THEN Parsed(NumVal(p[3]), NumVal(p[1]), NumVal(p[2]), 0, 0, 0, "none")
        ELSE IF Len(p) = 2 /\ Num12(p[1])
        THEN Bind(SplitOn(p[2], " "), LAMBDA q :
                 IF Len(q) = 2 /\ Num12(q[1])
                 THEN Bind(ParseClock(q[2]), LAMBDA c :
                          IF c.ok
                          THEN Parsed(today.y, NumVal(p[1]), NumVal(q[1]),
                                      c.H, c.M, 0, "none")
                          ELSE NoParse)
                 ELSE NoParse)
        ELSE NoParse)

\* HH:MM:SS with an optional .fff
ParseIsoClock(s) ==
    Bind(SplitOn(s, "."), LAMBDA whole :
    Bind(SplitOn(whole[1], ":"), LAMBDA p :
        IF /\ Len(whole) = 1 \/ (Len(whole) = 2 /\ AllDigits(whole[2]))
           /\ Len(p) = 3 /\ Num2(p[1]) /\ Num2(p[2]) /\ Num2(p[3])
        THEN [ok |-> TRUE, H |-> NumVal(p[1]), M |-> NumVal(p[2]), S |-> NumVal(p[3])]
        ELSE [ok |-> FALSE]))

\* YYYY-MM-DD, or YYYY-MM-DDTHH:MM:SS with an optional .fff and an optional Z
ParseIsoForm(s) ==
    Bind(IF EndsWith(s, "Z") THEN "utc" ELSE "none", LAMBDA zone :
    Bind(SplitOn(IF zone = "utc" THEN SubSeq(s, 1, Len(s) - 1) ELSE s, "T"),
         LAMBDA halves :
    Bind(SplitOn(halves[1], "-"), LAMBDA p :
        IF ~(Len(p) = 3 /\ Num4(p[1]) /\ Num2(p[2]) /\ Num2(p[3])) THEN NoParse
        ELSE IF Len(halves) = 1 /\ zone = "none"
        THEN Parsed(NumVal(p[1]), NumVal(p[2]), NumVal(p[3]), 0, 0, 0, "none")
        ELSE IF Len(halves) = 2
        THEN Bind(ParseIsoClock(halves[2]), LAMBDA c :
                 IF c.ok
                 THEN Parsed(NumVal(p[1]), NumVal(p[2]), NumVal(p[3]),
                             c.H, c.M, c.S, zone)
                 ELSE NoParse)
        ELSE NoParse)))

date_parser_parse(s, today) ==
    IF Contains(s, "/") THEN ParseSlashForm(s, today) ELSE ParseIsoForm(s)

----------------------------------------------------------------------------
(* BSPSpeechParser.parse_date *)

DateError(date_str, cause) == [ok |-> FALSE, input |-> date_str, cause |-> cause]

\* ParsePartial with the offset applied in the wrong direction
ParsePartialAddsOffset(date_str, now) ==
    Bind(SplitOn(date_str, "/"), LAMBDA parts :
        IF ~IntOk(parts[1]) \/ ~IntOk(parts[2])
        THEN DateError(date_str, "invalid literal for int()")
        ELSE Bind([month |-> IntVal(parts[1]), day |-> IntVal(parts[2])], LAMBDA v :
            IF ~ValidDateTime(now.y, v.month, v.day, 0, 0, 0)
            THEN DateError(date_str, "out of range")
            ELSE [ok |-> TRUE,
                  val |-> FormatQueryInstant(
                              AddHours(DT(now.y, v.month, v.day, 0, 0, 0), 8).t)]))

\* the branch for inputs like '6/29': current year, midnight Philippine Time
ParsePartial(date_str, now) ==
    Bind(SplitOn(date_str, "/"), LAMBDA parts :
        IF ~IntOk(parts[1]) \/ ~IntOk(parts[2])
        THEN DateError(date_str, "invalid literal for int()")
        ELSE Bind([month |-> IntVal(parts[1]), day |-> IntVal(parts[2])], LAMBDA v :
            IF ~ValidDateTime(now.y, v.month, v.day, 0, 0, 0)
            THEN DateError(date_str, "out of range")
            ELSE Bind(AddHours(DT(now.y, v.month, v.day, 0, 0, 0), -8),
                      LAMBDA utc_time :
                     IF utc_time.ok
                     THEN [ok |-> TRUE, val |-> FormatQueryInstant(utc_time.t)]
                     ELSE DateError(date_str, utc_time.cause))))

\* the branch for every other format
ParseGeneral(date_str, now) ==
    Bind(date_parser_parse(date_str, now), LAMBDA parsed_date :
        IF ~parsed_date.ok THEN DateError(date_str, parsed_date.cause)
        ELSE Bind(IF parsed_date.zone = "none"
                  THEN AddHours(parsed_date.t, -8)
                  ELSE [ok |-> TRUE, t |-> parsed_date.t],
                  LAMBDA utc_date :
                 IF utc_date.ok
                 THEN [ok |-> TRUE, val |-> FormatQueryInstant(utc_date.t)]
                 ELSE DateError(date_str, utc_date.cause)))

parse_date(date_str, now) ==
    IF Contains(date_str, "/") /\ Len(SplitOn(date_str, "/")) = 2
    THEN ParsePartial(date_str, now)
    ELSE ParseGeneral(date_str, now)

----------------------------------------------------------------------------
(* Python values of a dictionary field: a string, None, or no such key *)

PyStr(s) == [k |-> "str", s |-> s]

PyNone == [k |-> "none"]

Absent == [k |-> "absent"]

IsStr(v) == v.k = "str"

\* the truth value Python gives a field value
Truthy(value) == Bind(value, LAMBDA v : v.k = "str" /\ v.s # <<>>)

\* dict.get(key, default)
DictGet(d, key, default) == IF d[key].k = "absent" THEN default ELSE d[key]

----------------------------------------------------------------------------
(* Text cleaning.  A code point outside ASCII is one character named by its *)
(* code point: "U+00A0" no-break space, "U+2013" en dash, "U+2014" em dash, *)
(* "U+2018"/"U+2019" single quotes, "U+201C"/"U+201D" double quotes,        *)
(* "U+2026" ellipsis, "U+200B" zero-width space.                            *)

StartsWithAt(s, i, w) ==
    /\ i + Len(w) - 1 <= Len(s)
    /\ \A k \in 1..Len(w) : s[i + k - 1] = w[k]

\* the named character references the model's texts use, with their characters
Entities ==
    { <<<<"&", "l", "t", ";">>, "<">>,
      <<<<"&", "g", "t", ";">>, ">">>,
      <<<<"&", "a", "m", "p", ";">>, "&">>,
      <<<<"&", "n", "b", "s", "p", ";">>, "U+00A0">> }

\* html.unescape from position i on: one left-to-right pass
RECURSIVE HtmlUnescapeFrom(_, _)
HtmlUnescapeFrom(s, from) ==
    Bind(from, LAMBDA i :
        IF i > Len(s) THEN <<>>
        ELSE IF \E e \in Entities : StartsWithAt(s, i, e[1])
        THEN Bind(CHOOSE x \in Entities : StartsWithAt(s, i, x[1]), LAMBDA e :
                 <<e[2]>> \o HtmlUnescapeFrom(s, i + Len(e[1])))
        ELSE <<s[i]>> \o HtmlUnescapeFrom(s, i + 1))

html_unescape(text) == Bind(text, LAMBDA s : HtmlUnescapeFrom(s, 1))

\* re.sub of a one-character literal pattern
RECURSIVE ReplaceChar(_, _, _)
ReplaceChar(text, c, rep) ==
    Bind(text, LAMBDA s :
        IF s = <<>> THEN <<>>
        ELSE (IF s[1] = c THEN rep ELSE <<s[1]>>) \o ReplaceChar(Tail(s), c, rep))

\* ftfy's uncurl_quotes
UncurlQuotes(s) ==
    ReplaceChar(ReplaceChar(ReplaceChar(ReplaceChar(s,
        "U+2018", <<"'">>), "U+2019", <<"'">>), "U+201C", <<"\"">>), "U+201D", <<"\"">>)

\* ftfy's fix_and_explain on one segment: its fixers run until nothing changes
RECURSIVE FixSegment(_, _)
FixSegment(segment, unescape) ==
    Bind(segment, LAMBDA seg :
    Bind(UncurlQuotes(IF unescape THEN html_unescape(seg) ELSE seg), LAMBDA step :
        IF step = seg THEN seg ELSE FixSegment(step, unescape)))

\* ftfy.fix_text: line by line; with unescape_html="auto", character references
\* are decoded only until a segment holding '<' has been seen
RECURSIVE FixTextFrom(_, _)
FixTextFrom(text, unescape) ==
    Bind(text, LAMBDA s :
        IF s = <<>> THEN <<>>
        ELSE Bind(IF Contains(s, "\n")
                  THEN CHOOSE i \in 1..Len(s) :
                           s[i] = "\n" /\ \A j \in 1..(i - 1) : s[j] # "\n"
                  ELSE Len(s),
                  LAMBDA brk :
             Bind(unescape /\ ~Contains(SubSeq(s, 1, brk), "<"), LAMBDA still :
                 FixSegment(SubSeq(s, 1, brk), still)
                 \o FixTextFrom(SubSeq(s, brk + 1, Len(s)), still))))

ftfy_fix_text(s) == FixTextFrom(s, TRUE)

\* the replacement table of fix_encoding, in its order
replacements ==
    << <<"U+2013", <<"-">>>>,
       <<"U+2014", <<"-", "-">>>>,
       <<"U+2018", <<"'">>>>,
       <<"U+2019", <<"'">>>>,
       <<"U+201C", <<"\"">>>>,
       <<"U+201D", <<"\"">>>>,
       <<"U+2026", <<".", ".", ".">>>>,
       <<"U+200B", <<>>>>,
       <<"U+00A0", <<" ">>>> >>

RECURSIVE ApplyReplacements(_, _)
ApplyReplacements(text, k) ==
    Bind(text, LAMBDA s :
        IF k > Len(replacements) THEN s
        ELSE ApplyReplacements(
                 ReplaceChar(s, replacements[k][1], replacements[k][2]), k + 1))

\* BSPSpeechParser.fix_encoding: the fixed text, "" for a falsy argument
fix_encoding(value) ==
    Bind(value, LAMBDA text :
        IF ~Truthy(text) THEN <<>>
        ELSE ApplyReplacements(ftfy_fix_text(text.s), 1))

\* what a '.' of the tag pattern matches: anything but a line feed
DotMatches(c) == c # "\n"

\* re.sub(r"<.*?>", " ", s): leftmost matches, each as short as possible
RECURSIVE StripTags(_)
StripTags(text) ==
    Bind(text, LAMBDA s :
    Bind({i \in 1..Len(s) :
             /\ s[i] = "<"
             /\ \E j \in (i + 1)..Len(s) :
                    /\ s[j] = ">"
                    /\ \A k \in (i + 1)..(j - 1) : DotMatches(s[k])},
         LAMBDA opens :
        IF opens = {} THEN s
        ELSE Bind(CHOOSE x \in opens : \A y \in opens : x <= y, LAMBDA i :
             Bind(CHOOSE x \in (i + 1)..Len(s) :
                      /\ s[x] = ">"
                      /\ \A k \in (i + 1)..(x - 1) : s[k] # ">",
                  LAMBDA j :
                 SubSeq(s, 1, i - 1) \o <<" ">> \o StripTags(SubSeq(s, j + 1, Len(s)))))))

\* what \s of a str pattern and str.strip() treat as whitespace
IsWhite(c) == c \in {" ", "\n", "\t", "U+00A0"}

\* re.sub(r"\s+", " ", s)
RECURSIVE CollapseWhite(_)
CollapseWhite(text) ==
    Bind(text, LAMBDA s :
        IF s = <<>> THEN <<>>
        ELSE IF IsWhite(s[1])
        THEN IF Len(s) > 1 /\ IsWhite(s[2]) THEN CollapseWhite(Tail(s))
             ELSE <<" ">> \o CollapseWhite(Tail(s))
        ELSE <<s[1]>> \o CollapseWhite(Tail(s)))

\* str.strip()
StripWhite(text) ==
    Bind(text, LAMBDA s :
        Bind({i \in 1..Len(s) : ~IsWhite(s[i])}, LAMBDA keep :
            IF keep = {} THEN <<>>
            ELSE SubSeq(s, CHOOSE i \in keep : \A j \in keep : i <= j,
                           CHOOSE i \in keep : \A j \in keep : j <= i)))

\* BSPSpeechParser.clean_html_content: the plain text, "" for a falsy argument
clean_html_content(value) ==
    Bind(value, LAMBDA html_content :
        IF ~Truthy(html_content) THEN <<>>
        ELSE LET decoded_html == html_unescape(html_content.s)
                 fixed_html == fix_encoding(PyStr(decoded_html))
                 tagless == StripTags(fixed_html)
                 spaced == ReplaceChar(tagless, "U+00A0", <<" ">>)
             IN StripWhite(CollapseWhite(spaced)))

----------------------------------------------------------------------------
(* BSPSpeechParser.ph_time_from_utc and extract_speech_data *)

\* a number field of strptime: one or two digits within lo..hi
Field12(s, lo, hi) == Num12(s) /\ NumVal(s) >= lo /\ NumVal(s) <= hi

\* datetime.strptime(s, "%Y-%m-%dT%H:%M:%SZ"): %Y takes four digits, the other
\* fields one or two; the datetime constructor then checks the calendar
strptime_utc(s) ==
    Bind(SplitOn(SubSeq(s, 1, Len(s) - 1), "T"), LAMBDA halves :
    Bind(SplitOn(halves[1], "-"), LAMBDA p :
    Bind(IF Len(halves) = 2 THEN SplitOn(halves[2], ":") ELSE <<>>, LAMBDA q :
        IF /\ EndsWith(s, "Z")
           /\ Len(halves) = 2 /\ Len(p) = 3 /\ Len(q) = 3
           /\ Num4(p[1]) /\ Field12(p[2], 1, 12) /\ Field12(p[3], 1, 31)
           /\ Field12(q[1], 0, 23) /\ Field12(q[2], 0, 59) /\ Field12(q[3], 0, 61)
           /\ ValidDateTime(NumVal(p[1]), NumVal(p[2]), NumVal(p[3]),
                            NumVal(q[1]), NumVal(q[2]), NumVal(q[3]))
        THEN [ok |-> TRUE,
              t |-> DT(NumVal(p[1]), NumVal(p[2]), NumVal(p[3]),
                       NumVal(q[1]), NumVal(q[2]), NumVal(q[3]))]
        ELSE [ok |-> FALSE, cause |-> "does not match format"])))

NoTime == [ok |-> FALSE]

\* ph_time_from_utc without the conversion to Philippine Time
ph_time_left_in_utc(utc_date_str, today) ==
    IF ~Truthy(utc_date_str) THEN NoTime
    ELSE Bind(IF EndsWith(utc_date_str.s, "Z")
              THEN strptime_utc(utc_date_str.s)
              ELSE date_parser_parse(utc_date_str.s, today),
              LAMBDA utc_date :
             IF ~utc_date.ok THEN NoTime ELSE [ok |-> TRUE, t |-> utc_date.t])

\* the datetime in Philippine Time, or NoTime for the None the code returns
ph_time_from_utc(utc_date_str, today) ==
    IF ~Truthy(utc_date_str) THEN NoTime
    ELSE Bind(IF EndsWith(utc_date_str.s, "Z")
              THEN strptime_utc(utc_date_str.s)
              ELSE date_parser_parse(utc_date_str.s, today),
              LAMBDA utc_date :
             IF ~utc_date.ok THEN NoTime
             ELSE Bind(AddHours(utc_date.t, 8), LAMBDA ph_date :
                      IF ph_date.ok THEN [ok |-> TRUE, t |-> ph_date.t] ELSE NoTime))

MonthNames ==
    << <<"J", "a", "n", "u", "a", "r", "y">>,
       <<"F", "e", "b", "r", "u", "a", "r", "y">>,
       <<"M", "a", "r", "c", "h">>,
       <<"A", "p", "r", "i", "l">>,
       <<"M", "a", "y">>,
       <<"J", "u", "n", "e">>,
       <<"J", "u", "l", "y">>,
       <<"A", "u", "g", "u", "s", "t">>,
       <<"S", "e", "p", "t", "e", "m", "b", "e", "r">>,
       <<"O", "c", "t", "o", "b", "e", "r">>,
       <<"N", "o", "v", "e", "m", "b", "e", "r">>,
       <<"D", "e", "c", "e", "m", "b", "e", "r">> >>

\* strftime("%B %d, %Y")
FormatDisplay(t) ==
    MonthNames[t.m] \o <<" ">> \o Pad2(t.d) \o <<",", " ">> \o Pad4(t.y)

\* ExtractOne with None left in Date when there is no display date
ExtractOneNullDate(record, today) ==
    Bind(record, LAMBDA speech :
    Bind(IF Truthy(DictGet(speech, "SDate", PyNone))
         THEN ph_time_from_utc(DictGet(speech, "SDate", PyNone), today)
         ELSE NoTime,
         LAMBDA speech_date :
        [Title |-> PyStr(fix_encoding(DictGet(speech, "Title", PyStr(<<>>)))),
         Date |-> IF speech_date.ok THEN PyStr(FormatDisplay(speech_date.t)) ELSE PyNone,
         SDate |-> DictGet(speech, "SDate", PyStr(<<>>)),
         Place |-> PyStr(fix_encoding(DictGet(speech, "Place", PyStr(<<>>)))),
         Occasion |-> PyStr(fix_encoding(DictGet(speech, "Occasion", PyStr(<<>>)))),
         Speaker |-> PyStr(fix_encoding(DictGet(speech, "Speaker", PyStr(<<>>)))),
         Transcription |->
             PyStr(clean_html_content(DictGet(speech, "Transcription", PyStr(<<>>))))]))

\* ExtractOne with the display date stored in SDate as well
ExtractOneDisplaySDate(record, today) ==
    Bind(record, LAMBDA speech :
    Bind(IF Truthy(DictGet(speech, "SDate", PyNone))
         THEN ph_time_from_utc(DictGet(speech, "SDate", PyNone), today)
         ELSE NoTime,
         LAMBDA speech_date :
        [Title |-> PyStr(fix_encoding(DictGet(speech, "Title", PyStr(<<>>)))),
         Date |-> PyStr(IF speech_date.ok THEN FormatDisplay(speech_date.t) ELSE <<>>),
         SDate |-> PyStr(IF speech_date.ok THEN FormatDisplay(speech_date.t) ELSE <<>>),
         Place |-> PyStr(fix_encoding(DictGet(speech, "Place", PyStr(<<>>)))),
         Occasion |-> PyStr(fix_encoding(DictGet(speech, "Occasion", PyStr(<<>>)))),
         Speaker |-> PyStr(fix_encoding(DictGet(speech, "Speaker", PyStr(<<>>)))),
         Transcription |->
             PyStr(clean_html_content(DictGet(speech, "Transcription", PyStr(<<>>))))]))

\* one iteration of the loop of extract_speech_data
ExtractOne(record, today) ==
    Bind(record, LAMBDA speech :
    Bind(IF Truthy(DictGet(speech, "SDate", PyNone))
         THEN ph_time_from_utc(DictGet(speech, "SDate", PyNone), today)
         ELSE NoTime,
         LAMBDA speech_date :
        [Title |-> PyStr(fix_encoding(DictGet(speech, "Title", PyStr(<<>>)))),
         Date |-> PyStr(IF speech_date.ok THEN FormatDisplay(speech_date.t) ELSE <<>>),
         SDate |-> DictGet(speech, "SDate", PyStr(<<>>)),
         Place |-> PyStr(fix_encoding(DictGet(speech, "Place", PyStr(<<>>)))),
         Occasion |-> PyStr(fix_encoding(DictGet(speech, "Occasion", PyStr(<<>>)))),
         Speaker |-> PyStr(fix_encoding(DictGet(speech, "Speaker", PyStr(<<>>)))),
         Transcription |->
             PyStr(clean_html_content(DictGet(speech, "Transcription", PyStr(<<>>))))]))

\* extract_speech_data without the reset of speech_date at the top of the loop:
\* a record without a display date of its own shows the one before it
extract_keeping_speech_date(speeches_json, today) ==
    [i \in 1..Len(speeches_json) |->
        IF i > 1 /\ ExtractOne(speeches_json[i], today).Date = PyStr(<<>>)
        THEN [ExtractOne(speeches_json[i], today) EXCEPT
                  !.Date = ExtractOne(speeches_json[i - 1], today).Date]
        ELSE ExtractOne(speeches_json[i], today)]

extract_speech_data(speeches_json, today) ==
    [i \in 1..Len(speeches_json) |-> ExtractOne(speeches_json[i], today)]

----------------------------------------------------------------------------
(* The fetch and save pipeline.  A call is computed to its outcome: what it  *)
(* returned or raised, the request it sent, and the files it wrote.          *)

\* the start of the range when no start date is given
FloorInstant ==
    <<"2", "0", "0", "0", "-", "0", "1", "-", "0", "1", "T",
      "0", "0", ":", "0", "0", ":", "0", "0", ".", "0", "0", "0", "Z">>

NoQuery == [start |-> <<>>, end |-> <<>>]

\* the end and the start of the range, in the order fetch_speeches computes them
QueryRange(start_date, end_date, now) ==
    Bind(IF end_date.k = "none"
         THEN [ok |-> TRUE, val |-> FormatQueryInstant(now)]
         ELSE parse_date(end_date.s, now),
         LAMBDA e :
        IF ~e.ok THEN [ok |-> FALSE, cause |-> e.cause, query |-> NoQuery]
        ELSE Bind(IF start_date.k = "none"
                  THEN [ok |-> TRUE, val |-> FloorInstant]
                  ELSE parse_date(start_date.s, now),
                  LAMBDA s :
                 IF ~s.ok THEN [ok |-> FALSE, cause |-> s.cause, query |-> NoQuery]
                 ELSE [ok |-> TRUE, cause |-> "",
                       query |-> [start |-> s.val, end |-> e.val]]))

\* strftime('%Y%m%d_%H%M%S') inside raw_response_<stamp>.json
RawResponseName(now) ==
    Pad4(now.y) \o Pad2(now.m) \o Pad2(now.d) \o <<"_">>
    \o Pad2(now.H) \o Pad2(now.M) \o Pad2(now.S)

File(dir, name) == [dir |-> dir, name |-> name]

\* the outcome of a call that raised exc
Raised(exc, sent, query, written) ==
    [raised |-> TRUE, exc |-> exc, value |-> <<>>, sent |-> sent,
     query |-> query, written |-> written]

\* the outcome of a call that returned value
Returned(value, sent, query, written) ==
    [raised |-> FALSE, exc |-> "", value |-> value, sent |-> sent,
     query |-> query, written |-> written]

\* the outcome of a call that caught exc, printed it and returned value
Swallowed(exc, value, sent, query, written) ==
    [raised |-> FALSE, exc |-> exc, value |-> value, sent |-> sent,
     query |-> query, written |-> written]

\* response.json() and data.get("value", []) of a 200 response
ResponseValue(resp) ==
    IF resp.body.kind # "json" THEN [ok |-> FALSE, value |-> <<>>]
    ELSE [ok |-> TRUE, value |-> IF resp.body.hasValue THEN resp.body.value ELSE <<>>]

\* BSPSpeechParser.save_raw_response: the file written, or the ValueError
save_raw_response(folder, now) ==
    IF ~folder THEN [ok |-> FALSE, written |-> {}]
    ELSE [ok |-> TRUE, written |-> {File("raw_responses", RawResponseName(now))}]

\* fetch_speeches with the request sent and dumped before the dates are parsed
fetch_speeches_sending_first(folder, start_date, end_date, resp, now) ==
    Bind(QueryRange(start_date, end_date, now), LAMBDA range :
    Bind(save_raw_response(folder, now), LAMBDA saved :
        IF ~saved.ok
        THEN Raised("ValueError: Output folder not set", 1, range.query, {})
        ELSE IF ~range.ok
        THEN Raised("ValueError: Unable to parse date", 1, NoQuery, saved.written)
        ELSE IF resp.status = 200
        THEN IF ResponseValue(resp).ok
             THEN Returned(ResponseValue(resp).value, 1, range.query, saved.written)
             ELSE Raised("JSONDecodeError", 1, range.query, saved.written)
        ELSE Returned(<<>>, 1, range.query, saved.written)))

\* BSPSpeechParser.fetch_speeches of bsp_speech_parser.py
fetch_speeches(folder, start_date, end_date, resp, now) ==
    Bind(QueryRange(start_date, end_date, now), LAMBDA range :
    Bind(save_raw_response(folder, now), LAMBDA saved :
        IF ~range.ok THEN Raised("ValueError: Unable to parse date", 0, NoQuery, {})
        ELSE IF ~saved.ok
        THEN Raised("ValueError: Output folder not set", 1, range.query, {})
        ELSE IF resp.status = 200
        THEN IF ResponseValue(resp).ok
             THEN Returned(ResponseValue(resp).value, 1, range.query, saved.written)
             ELSE Raised("JSONDecodeError", 1, range.query, saved.written)
        ELSE Returned(<<>>, 1, range.query, saved.written)))

\* BSPSpeechParser.fetch_speeches of main.py: no raw dump of the response
main_fetch_speeches(start_date, end_date, resp, now) ==
    Bind(QueryRange(start_date, end_date, now), LAMBDA range :
        IF ~range.ok THEN Raised("ValueError: Unable to parse date", 0, NoQuery, {})
        ELSE IF resp.status = 200
        THEN IF ResponseValue(resp).ok
             THEN Returned(ResponseValue(resp).value, 1, range.query, {})
             ELSE Raised("JSONDecodeError", 1, range.query, {})
        ELSE Returned(<<>>, 1, range.query, {}))

\* date_str.replace("/", "-") if date_str else word
DatePart(date_str, word) ==
    IF Truthy(date_str) THEN ReplaceChar(date_str.s, "/", <<"-">>) ELSE word

\* f"speeches_{date_str_start}_to_{date_str_end}"
FilenamePrefix(start_date, end_date) ==
    <<"s", "p", "e", "e", "c", "h", "e", "s", "_">>
    \o DatePart(start_date, <<"a", "l", "l">>)
    \o <<"_", "t", "o", "_">>
    \o DatePart(end_date, <<"t", "o", "d", "a", "y">>)

JsonName(prefix) == prefix \o <<".", "j", "s", "o", "n">>

CsvName(prefix) == prefix \o <<".", "c", "s", "v">>

\* BSPSpeechParser.get_speeches: every exception ends in the except clause,
\* which prints it and returns []
get_speeches(folder, start_date, end_date, save_files, resp, now) ==
    Bind(fetch_speeches(folder, start_date, end_date, resp, now), LAMBDA fetched :
        IF fetched.raised
        THEN Swallowed(fetched.exc, <<>>, fetched.sent, fetched.query, fetched.written)
        ELSE IF fetched.value = <<>>
        THEN Returned(<<>>, fetched.sent, fetched.query, fetched.written)
        ELSE Bind(extract_speech_data(fetched.value, now), LAMBDA speeches_clean :
            IF ~save_files
            THEN Returned(speeches_clean, fetched.sent, fetched.query, fetched.written)
            ELSE IF ~folder
            THEN Swallowed("ValueError: Output folder must be set to save files",
                           <<>>, fetched.sent, fetched.query, fetched.written)
            ELSE Bind(FilenamePrefix(start_date, end_date), LAMBDA prefix :
                     Returned(speeches_clean, fetched.sent, fetched.query,
                              fetched.written
                              \cup {File("processed", JsonName(prefix)),
                                    File("csv", CsvName(prefix))}))))

\* get_bsp_speeches: a parser of its own, saving exactly when a folder is given
get_bsp_speeches(start_date, end_date, output_folder, resp, now) ==
    get_speeches(output_folder, start_date, end_date, output_folder, resp, now)

\* BSPSpeechParser.process_speeches of main.py: value is <<TRUE>> or <<FALSE>>
process_speeches(start_date, end_date, resp, now) ==
    Bind(main_fetch_speeches(start_date, end_date, resp, now), LAMBDA fetched :
        IF fetched.raised
        THEN Swallowed(fetched.exc, <<FALSE>>, fetched.sent, fetched.query, {})
        ELSE IF fetched.value = <<>>
        THEN Returned(<<FALSE>>, fetched.sent, fetched.query, {})
        ELSE Bind(FilenamePrefix(start_date, end_date), LAMBDA prefix :
                 Returned(<<TRUE>>, fetched.sent, fetched.query,
                          {File("raw", JsonName(prefix)), File("csv", CsvName(prefix))})))

----------------------------------------------------------------------------
(* The state machines: one per group of operations.  Each starts from the   *)
(* inputs and the environment the operation may meet and applies it.        *)

NotCalled == [ok |-> FALSE, input |-> <<>>, cause |-> "not called"]

NoCall == [api |-> "none"]

Offsets == {-5, 0, 8}

NowSamples == {DT(2023, 6, 15, 12, 0, 0), DT(2024, 12, 31, 20, 0, 0)}

DateIdle == dateIn = <<>> /\ dateOut = NotCalled

DisplayIdle == utcIn = PyNone /\ phOut = NoTime

TextIdle == textIn = PyNone /\ textOut = <<>>

ExtractIdle == speechesIn = <<>> /\ speechesOut = <<>>

\* an empty disk
NoFiles == <<>>

\* no call has been answered
NoneResponded == [fetch_speeches |-> 0, process_speeches |-> 0]

PipelineIdle ==
    outputFolder = FALSE /\ last = NoCall /\ files = NoFiles /\ responded = NoneResponded

(* parse_date *)

MaxMonthIn == 13
MaxDayIn == 32

Slash(a, b) == a \o <<"/">> \o b

PartialInputs ==
    {Slash(Numeral(m), Numeral(d)) : m \in 0..MaxMonthIn, d \in 0..MaxDayIn}
    \cup {Slash(Pad2(m), Pad2(d)) : m \in {1, 6, 12}, d \in {1, 29, 31}}

OtherDateInputs ==
    { <<>>,
      <<"/">>,
      <<"6", "/">>,
      <<" ", "6", "/", "2", "9", " ">>,
      <<"J", "a", "n", "/", "5">>,
      <<"6", "/", "2", "9", " ", "1", "0", ":", "0", "0">>,
      <<"1", "/", "1", " ", "0", "7", ":", "3", "0">>,
      <<"6", "/", "3", "1", " ", "1", "0", ":", "0", "0">>,
      <<"0", "1", "/", "2", "0", "2", "3">>,
      <<"0", "1", "/", "0", "1", "/", "2", "0", "2", "3">>,
      <<"0", "3", "/", "3", "1", "/", "2", "0", "2", "3">>,
      <<"1", "3", "/", "0", "1", "/", "2", "0", "2", "3">>,
      <<"1", "/", "2", "/", "3", "/", "4">>,
      <<"2", "0", "2", "3", "-", "0", "1", "-", "0", "1">>,
      <<"2", "0", "2", "4", "-", "0", "3", "-", "0", "1", "T",
        "0", "7", ":", "3", "0", ":", "0", "0">>,
      <<"2", "0", "2", "4", "-", "0", "6", "-", "2", "8", "T",
        "1", "6", ":", "0", "0", ":", "0", "0", "Z">>,
      <<"2", "0", "2", "4", "-", "0", "6", "-", "2", "8", "T",
        "1", "6", ":", "0", "0", ":", "0", "0", ".", "0", "0", "0", "Z">>,
      <<"g", "a", "r", "b", "a", "g", "e">> }

DateInputs == PartialInputs \cup OtherDateInputs

InitDate ==
    /\ nowUtc \in NowSamples
    /\ tz \in Offsets
    /\ dateIn \in DateInputs
    /\ dateOut = NotCalled
    /\ DisplayIdle /\ TextIdle /\ ExtractIdle /\ PipelineIdle
    /\ op = "init"

ParseDate ==
    /\ op = "init"
    /\ dateOut' = parse_date(dateIn, LocalNow(nowUtc, tz))
    /\ op' = "parse_date"
    /\ UNCHANGED <<nowUtc, tz, outputFolder, last, files, responded, dateIn, utcIn, phOut,
                   textIn, textOut, speechesIn, speechesOut>>

NextDate == ParseDate

SpecDate == InitDate /\ [][NextDate]_vars

(* ph_time_from_utc *)

\* YYYY-MM-DDTHH:MM:SS
IsoSeconds(t) ==
    Pad4(t.y) \o <<"-">> \o Pad2(t.m) \o <<"-">> \o Pad2(t.d) \o <<"T">>
    \o Pad2(t.H) \o <<":">> \o Pad2(t.M) \o <<":">> \o Pad2(t.S)

SampleDays ==
    { <<2023, 1, 1>>, <<2023, 2, 28>>, <<2023, 12, 31>>,
      <<2024, 2, 28>>, <<2024, 2, 29>>, <<2024, 6, 28>>, <<9999, 12, 31>> }

SampleHours == {0, 7, 15, 16, 23}

SampleInstants == {DT(day[1], day[2], day[3], h, 0, 0) : day \in SampleDays, h \in SampleHours}

\* the instants as the API writes them, with milliseconds, and without the Z
InstantStrings ==
    {IsoSeconds(t) \o <<"Z">> : t \in SampleInstants}
    \cup {IsoSeconds(t) \o <<".", "0", "0", "0", "Z">> : t \in SampleInstants}
    \cup {IsoSeconds(t) : t \in SampleInstants}

OtherUtcStrings ==
    { <<"2", "0", "2", "3", "-", "0", "1", "-", "0", "1">>,
      <<"2", "0", "2", "3", "-", "1", "-", "1", "T", "0", ":", "0", ":", "0", "Z">>,
      <<"2", "0", "2", "3", "-", "0", "2", "-", "3", "0", "T",
        "0", "0", ":", "0", "0", ":", "0", "0", "Z">>,
      <<"2", "0", "2", "3", "-", "0", "1", "-", "0", "1", "T",
        "0", "0", ":", "0", "0", ":", "6", "0", "Z">>,
      <<"0", "1", "/", "0", "1", "/", "2", "0", "2", "3">>,
      <<"g", "a", "r", "b", "a", "g", "e">>,
      <<"Z">> }

UtcInputs ==
    {PyStr(s) : s \in InstantStrings \cup OtherUtcStrings} \cup {PyStr(<<>>), PyNone}

InitDisplay ==
    /\ nowUtc \in NowSamples
    /\ tz = 0
    /\ utcIn \in UtcInputs
    /\ phOut = NoTime
    /\ DateIdle /\ TextIdle /\ ExtractIdle /\ PipelineIdle
    /\ op = "init"

PhTimeFromUtc ==
    /\ op = "init"
    /\ phOut' = ph_time_from_utc(utcIn, LocalNow(nowUtc, tz))
    /\ op' = "ph_time_from_utc"
    /\ UNCHANGED <<nowUtc, tz, outputFolder, last, files, responded, dateIn, dateOut, utcIn,
                   textIn, textOut, speechesIn, speechesOut>>

NextDisplay == PhTimeFromUtc

SpecDisplay == InitDisplay /\ [][NextDisplay]_vars

(* fix_encoding and clean_html_content *)

MaxTokens == 4

Tokens ==
    { <<"<">>, <<">">>, <<"a">>, <<" ">>, <<"\n">>,
      <<"&", "l", "t", ";">>, <<"&", "g", "t", ";">>,
      <<"&", "n", "b", "s", "p", ";">>, <<"U+2019">> }

RECURSIVE TextsOf(_)
TextsOf(n) == IF n = 0 THEN {<<>>}
              ELSE {tok \o s : tok \in Tokens, s \in TextsOf(n - 1)}

OtherTexts ==
    { <<"<", "p", ">", "H", "e", "l", "l", "o", "&", "n", "b", "s", "p", ";",
        "W", "o", "r", "l", "d", "<", "/", "p", ">">>,
      <<"<", "p", "\n", "c", "l", "a", "s", "s", "=", "x", ">", "H", "i", "<", "/", "p", ">">>,
      <<"&", "a", "m", "p", ";", "l", "t", ";", "b", "&", "a", "m", "p", ";", "g", "t", ";", "x">>,
      <<"U+2018", "a", "U+2013", "U+2014", "U+201C", "b", "U+201D", "U+2026", "U+200B", "U+00A0", "c">>,
      <<"a", "U+2014", "U+2014", "b", "U+2026", "U+2026">>,
      <<"&", "U+200B", "l", "t", ";", "b">>,
      <<"&", "a", "U+200B", "m", "p", ";", "l", "t", ";">> }

TextInputs ==
    {PyStr(s) : s \in UNION {TextsOf(n) : n \in 0..MaxTokens} \cup OtherTexts}
    \cup {PyNone}

InitText ==
    /\ nowUtc = DT(2023, 6, 15, 12, 0, 0)
    /\ tz = 0
    /\ textIn \in TextInputs
    /\ textOut = <<>>
    /\ DateIdle /\ DisplayIdle /\ ExtractIdle /\ PipelineIdle
    /\ op = "init"

FixEncoding ==
    /\ op = "init"
    /\ textOut' = fix_encoding(textIn)
    /\ op' = "fix_encoding"
    /\ UNCHANGED <<nowUtc, tz, outputFolder, last, files, responded, dateIn, dateOut, utcIn, phOut,
                   textIn, speechesIn, speechesOut>>

CleanHtmlContent ==
    /\ op = "init"
    /\ textOut' = clean_html_content(textIn)
    /\ op' = "clean_html_content"
    /\ UNCHANGED <<nowUtc, tz, outputFolder, last, files, responded, dateIn, dateOut, utcIn, phOut,
                   textIn, speechesIn, speechesOut>>

\* fix_encoding applied to the text fix_encoding returned
FixEncodingAgain ==
    /\ op = "fix_encoding"
    /\ textIn' = PyStr(textOut)
    /\ textOut' = fix_encoding(PyStr(textOut))
    /\ op' = "fix_encoding_again"
    /\ UNCHANGED <<nowUtc, tz, outputFolder, last, files, responded, dateIn, dateOut, utcIn, phOut,
                   speechesIn, speechesOut>>

NextText == FixEncoding \/ FixEncodingAgain \/ CleanHtmlContent

SpecText == InitText /\ [][NextText]_vars

(* extract_speech_data *)

MaxRecords == 2

RawRecord(sdate, title, transcription) ==
    [SDate |-> sdate, Title |-> title, Place |-> PyStr(<<"M", "a", "n", "i", "l", "a">>),
     Occasion |-> PyNone, Speaker |-> Absent, Transcription |-> transcription]

SDateSamples ==
    { Absent, PyNone, PyStr(<<>>),
      PyStr(<<"g", "a", "r", "b", "a", "g", "e">>),
      PyStr(IsoSeconds(DT(2023, 1, 1, 0, 0, 0)) \o <<"Z">>),
      PyStr(IsoSeconds(DT(2023, 12, 31, 16, 0, 0)) \o <<"Z">>),
      PyStr(IsoSeconds(DT(2024, 2, 28, 15, 59, 59)) \o <<"Z">>),
      PyStr(IsoSeconds(DT(2024, 2, 28, 16, 0, 0)) \o <<"Z">>),
      PyStr(IsoSeconds(DT(2023, 2, 28, 23, 0, 0)) \o <<"Z">>),
      PyStr(IsoSeconds(DT(2024, 6, 30, 16, 0, 0)) \o <<"Z">>),
      PyStr(IsoSeconds(DT(2024, 6, 28, 16, 0, 0)) \o <<".", "0", "0", "0", "Z">>),
      PyStr(IsoSeconds(DT(2024, 6, 28, 16, 0, 0))),
      PyStr(<<"2", "0", "2", "3", "-", "1", "-", "1", "T", "0", ":", "0", ":", "0", "Z">>),
      PyStr(IsoSeconds(DT(9999, 12, 31, 20, 0, 0)) \o <<"Z">>) }

PlainTitle == PyStr(<<"T", "a", "l", "k">>)

PlainBody == PyStr(<<"<", "p", ">", "H", "i", "<", "/", "p", ">">>)

RawSamples ==
    {RawRecord(sd, PlainTitle, PlainBody) : sd \in SDateSamples}
    \cup { RawRecord(PyStr(IsoSeconds(DT(2023, 1, 1, 0, 0, 0)) \o <<"Z">>),
                     PyStr(<<"U+2018", "a", "U+2019">>), Absent),
           RawRecord(PyStr(IsoSeconds(DT(2023, 1, 1, 0, 0, 0)) \o <<"Z">>),
                     PyNone, PyNone),
           RawRecord(Absent, Absent,
                     PyStr(<<"<", "b", "\n", ">", "x", "&", "n", "b", "s", "p", ";", "y">>)) }

RECURSIVE RecordSeqs(_)
RecordSeqs(n) == IF n = 0 THEN {<<>>}
                 ELSE {<<r>> \o s : r \in RawSamples, s \in RecordSeqs(n - 1)}

InitExtract ==
    /\ nowUtc \in NowSamples
    /\ tz = 0
    /\ speechesIn \in UNION {RecordSeqs(n) : n \in 0..MaxRecords}
    /\ speechesOut = <<>>
    /\ DateIdle /\ DisplayIdle /\ TextIdle /\ PipelineIdle
    /\ op = "init"

ExtractSpeechData ==
    /\ op = "init"
    /\ speechesOut' = extract_speech_data(speechesIn, LocalNow(nowUtc, tz))
    /\ op' = "extract_speech_data"
    /\ UNCHANGED <<nowUtc, tz, outputFolder, last, files, responded, dateIn, dateOut, utcIn, phOut,
                   textIn, textOut, speechesIn>>

NextExtract == ExtractSpeechData

SpecExtract == InitExtract /\ [][NextExtract]_vars

(* the pipeline: a run of the program waits, makes one call and ends, as the *)
(* two scripts do                                                           *)

MaxTicks == 2

\* one second before the local year ends on a machine at UTC+8
StartClock == DT(2024, 12, 31, 15, 59, 58)

\* the clock one second later
NextSecond(t) ==
    IF t.S < 59 THEN [t EXCEPT !.S = t.S + 1]
    ELSE IF t.M < 59 THEN [t EXCEPT !.S = 0, !.M = t.M + 1]
    ELSE AddHours([t EXCEPT !.S = 0, !.M = 0], 1).t

RECURSIVE ClockAfter(_)
ClockAfter(n) == IF n = 0 THEN StartClock ELSE NextSecond(ClockAfter(n - 1))

DateArgs ==
    { PyNone,
      PyStr(<<"6", "/", "2", "9">>),
      PyStr(<<"0", "1", "/", "0", "1", "/", "2", "0", "2", "3">>),
      PyStr(<<"g", "a", "r", "b", "a", "g", "e">>) }

SampleValue ==
    << RawRecord(PyStr(IsoSeconds(DT(2023, 12, 31, 16, 0, 0)) \o <<"Z">>), PlainTitle, PlainBody),
       RawRecord(PyNone, PyStr(<<"U+2018", "a", "U+2019">>), Absent) >>

JsonBody(hasValue, value) == [kind |-> "json", hasValue |-> hasValue, value |-> value]

TextBody == [kind |-> "text", hasValue |-> FALSE, value |-> <<>>]

Responses ==
    { [status |-> 200, body |-> JsonBody(TRUE, SampleValue)],
      [status |-> 200, body |-> JsonBody(TRUE, <<>>)],
      [status |-> 200, body |-> JsonBody(FALSE, <<>>)],
      [status |-> 200, body |-> TextBody],
      [status |-> 404, body |-> TextBody],
      [status |-> 500, body |-> JsonBody(FALSE, <<>>)] }

\* a call as the caller sees it: its arguments, the instant it was made at,
\* the response the API gave and the outcome
Call(api, folder, start_date, end_date, save_files, resp, out) ==
    [api |-> api, folder |-> folder, start |-> start_date, end |-> end_date,
     save_files |-> save_files, resp |-> resp, at |-> nowUtc, out |-> out]

Env == <<tz, outputFolder, dateIn, dateOut, utcIn, phOut,
         textIn, textOut, speechesIn, speechesOut>>

\* open(path, "w") and write: a file of that path is replaced
WriteFiles(disk, written, resp) ==
    [f \in DOMAIN disk \cup written |-> IF f \in written THEN resp ELSE disk[f]]

\* the requests.get of a call was answered: counted under the fetch it went
\* through, fetch_speeches of bsp_speech_parser.py or of main.py
Answered(api, out) ==
    IF out.sent = 0 THEN responded
    ELSE IF api \in {"main_fetch_speeches", "process_speeches"}
    THEN [responded EXCEPT !.process_speeches = @ + 1]
    ELSE [responded EXCEPT !.fetch_speeches = @ + 1]

\* what a call leaves behind
Made(api, folder, start_date, end_date, save_files, resp, outcome) ==
    \E out \in {outcome} :
        /\ last' = Call(api, folder, start_date, end_date, save_files, resp, out)
        /\ files' = WriteFiles(files, out.written, resp)
        /\ responded' = Answered(api, out)
        /\ op' = api
        /\ UNCHANGED <<nowUtc, Env>>

Init ==
    /\ nowUtc = StartClock
    /\ tz \in {0, 8}
    /\ outputFolder \in BOOLEAN
    /\ last = NoCall
    /\ files = NoFiles
    /\ responded = NoneResponded
    /\ DateIdle /\ DisplayIdle /\ TextIdle /\ ExtractIdle
    /\ op = "init"

Tick ==
    /\ nowUtc # ClockAfter(MaxTicks)
    /\ nowUtc' = NextSecond(nowUtc)
    /\ op' = "tick"
    /\ UNCHANGED <<last, files, responded, Env>>

CallFetchSpeeches ==
    \E s \in DateArgs, e \in DateArgs, resp \in Responses :
        /\ last.api = "none"
        /\ Made("fetch_speeches", outputFolder, s, e, FALSE, resp,
                        fetch_speeches(outputFolder, s, e, resp, LocalNow(nowUtc, tz)))

CallMainFetchSpeeches ==
    \E s \in DateArgs, e \in DateArgs, resp \in Responses :
        /\ last.api = "none"
        /\ Made("main_fetch_speeches", TRUE, s, e, FALSE, resp,
                        main_fetch_speeches(s, e, resp, LocalNow(nowUtc, tz)))

CallGetSpeeches ==
    \E s \in DateArgs, e \in DateArgs, save \in BOOLEAN, resp \in Responses :
        /\ last.api = "none"
        /\ Made("get_speeches", outputFolder, s, e, save, resp,
                        get_speeches(outputFolder, s, e, save, resp, LocalNow(nowUtc, tz)))

CallGetBspSpeeches ==
    \E s \in DateArgs, e \in DateArgs, folder \in BOOLEAN, resp \in Responses :
        /\ last.api = "none"
        /\ Made("get_bsp_speeches", folder, s, e, folder, resp,
                        get_bsp_speeches(s, e, folder, resp, LocalNow(nowUtc, tz)))

CallProcessSpeeches ==
    \E s \in DateArgs, e \in DateArgs, resp \in Responses :
        /\ last.api = "none"
        /\ Made("process_speeches", TRUE, s, e, TRUE, resp,
                        process_speeches(s, e, resp, LocalNow(nowUtc, tz)))

Next ==
    \/ Tick
    \/ CallFetchSpeeches
    \/ CallMainFetchSpeeches
    \/ CallGetSpeeches
    \/ CallGetBspSpeeches
    \/ CallProcessSpeeches

Spec == Init /\ [][Next]_vars

(* several fetches by one program, on one disk *)

MaxFetches == 2

\* the date ranges asked for: everything, from a day on, and a start date no
\* parser reads
FetchRanges ==
    { <<PyNone, PyNone>>,
      <<PyStr(<<"6", "/", "2", "9">>), PyNone>>,
      <<PyStr(<<"g", "a", "r", "b", "a", "g", "e">>), PyNone>> }

FetchResponses ==
    { [status |-> 200, body |-> JsonBody(TRUE, SampleValue)],
      [status |-> 404, body |-> TextBody] }

FetchSpeechesAgain ==
    \E range \in FetchRanges, resp \in FetchResponses :
        /\ responded.fetch_speeches + responded.process_speeches < MaxFetches
        /\ Made("fetch_speeches", outputFolder, range[1], range[2], FALSE, resp,
                fetch_speeches(outputFolder, range[1], range[2], resp,
                               LocalNow(nowUtc, tz)))

ProcessSpeechesAgain ==
    \E range \in FetchRanges, resp \in FetchResponses :
        /\ responded.fetch_speeches + responded.process_speeches < MaxFetches
        /\ Made("process_speeches", TRUE, range[1], range[2], TRUE, resp,
                process_speeches(range[1], range[2], resp, LocalNow(nowUtc, tz)))

NextFetches == Tick \/ FetchSpeechesAgain \/ ProcessSpeechesAgain

SpecFetches == Init /\ [][NextFetches]_vars

----------------------------------------------------------------------------
(* Claims about the pipeline, under Spec *)

\* the local wall clock at the instant of the last call
CallNow == LocalNow(last.at, tz)

\* the last call was answered with status 200 and a non-empty value array
AnsweredWithRecords ==
    /\ last.out.sent = 1
    /\ last.resp.status = 200
    /\ last.resp.body.kind = "json"
    /\ last.resp.body.hasValue
    /\ last.resp.body.value # <<>>

\* C1 (as claimed): a call of get_bsp_speeches, or of get_speeches with
\* save_files=False, made without an output folder and answered with status
\* 200 and a non-empty value array returns the normalized records, one per
\* raw record; the missing folder does not make the result empty.
C1_NoFolderReturnsRecords ==
    (/\ last.api \in {"get_bsp_speeches", "get_speeches"}
     /\ ~last.folder /\ ~last.save_files
     /\ AnsweredWithRecords)
    => /\ ~last.out.raised
       /\ Len(last.out.value) = Len(last.resp.body.value)
       /\ last.out.value = extract_speech_data(last.resp.body.value, CallNow)

\* C2 (as claimed): get_speeches called with save_files=True on a parser
\* without an output folder raises ValueError to its caller and does not
\* return normally, for every fetch outcome that has records to save.
C2_SaveWithoutFolderRaises ==
    (/\ last.api = "get_speeches"
     /\ ~last.folder /\ last.save_files
     /\ AnsweredWithRecords)
    => /\ last.out.raised
       /\ last.out.exc \in {"ValueError: Output folder not set",
                            "ValueError: Output folder must be set to save files"}

\* C3 (as claimed): for a response whose status is not 2xx, fetch_speeches
\* returns an empty result without raising and has issued exactly one
\* request, whether or not the parser has an output folder.
C3_NonSuccessStatusGivesEmpty ==
    (/\ last.api \in {"fetch_speeches", "main_fetch_speeches"}
     /\ last.out.query # NoQuery
     /\ last.resp.status \notin 200..299)
    => /\ ~last.out.raised
       /\ last.out.value = <<>>
       /\ last.out.sent = 1

\* C9 (as claimed): when a bound is not supplied, the query's lower bound is
\* the fixed floor 2000-01-01T00:00:00.000Z and its upper bound is the instant
\* of the call written as a UTC instant, whatever the machine's local offset.
C9_DefaultRangeIsFloorToUtcNow ==
    (last.api # "none" /\ last.out.sent = 1)
    => /\ last.start = PyNone => last.out.query.start = FloorInstant
       /\ last.end = PyNone => last.out.query.end = FormatQueryInstant(last.at)

\* a date argument of the call is a string parse_date raises on
HasUnreadableDate(call) ==
    \/ IsStr(call.start) /\ ~parse_date(call.start.s, LocalNow(call.at, tz)).ok
    \/ IsStr(call.end) /\ ~parse_date(call.end.s, LocalNow(call.at, tz)).ok

\* C16: a call whose start or end date parse_date raises on sends no request
\* and writes no file; fetch_speeches raises, get_speeches and
\* get_bsp_speeches return [], and process_speeches returns False.
C16_UnreadableDateSendsAndWritesNothing ==
    [][(op' \notin {"init", "tick"} /\ HasUnreadableDate(last')) =>
          /\ files' = files
          /\ responded' = responded
          /\ last'.out.sent = 0
          /\ last'.out.written = {}
          /\ last'.api \in {"fetch_speeches", "main_fetch_speeches"} => last'.out.raised
          /\ last'.api \in {"get_speeches", "get_bsp_speeches"}
                 => ~last'.out.raised /\ last'.out.value = <<>>
          /\ last'.api = "process_speeches"
                 => ~last'.out.raised /\ last'.out.value = <<FALSE>>]_vars

\* C16 witness: get_speeches with a folder and saving, given a start date no
\* parser reads and an API that would have answered with records, returned []
\* with nothing sent and nothing on disk
C16_Witness ==
    /\ last.api = "get_speeches"
    /\ last.folder /\ last.save_files
    /\ last.start = PyStr(<<"g", "a", "r", "b", "a", "g", "e">>)
    /\ last.end = PyNone
    /\ last.resp = [status |-> 200, body |-> JsonBody(TRUE, SampleValue)]
    /\ last.out.value = <<>>
    /\ last.out.sent = 0
    /\ files = NoFiles
    /\ responded = NoneResponded

----------------------------------------------------------------------------
(* Claims about several fetches on one disk, under SpecFetches *)

\* the raw dumps of fetch_speeches on disk
RawDumps == {f \in DOMAIN files : f.dir = "raw_responses"}

\* C14 (as claimed): after any sequence of fetches by a parser with an output
\* folder, there are as many raw dump files as fetches that received a
\* response: no fetch overwrites the dump of an earlier one, two fetches
\* within the same clock second included.
C14_OneRawDumpPerAnsweredFetch ==
    outputFolder => Cardinality(RawDumps) = responded.fetch_speeches

----------------------------------------------------------------------------
(* Claims about parse_date, under SpecDate *)

CurrentYear == LocalNow(nowUtc, tz).y

\* the two spellings of month m, day d as a partial date
SpellsPartial(s, m, d) ==
    s \in {Slash(Numeral(m), Numeral(d)), Slash(Pad2(m), Pad2(d))}

\* exactly one '/', two numeric components that name a month and a day of
\* the current year
MatchesPartialPattern(s) ==
    Bind(SplitOn(s, "/"), LAMBDA p :
        /\ Len(p) = 2
        /\ AllDigits(Strip(p[1])) /\ AllDigits(Strip(p[2]))
        /\ NumVal(Strip(p[1])) \in 1..12
        /\ NumVal(Strip(p[2])) \in 1..DaysInMonth(CurrentYear, NumVal(Strip(p[1]))))

\* the calendar day before y-m-d, by the calendar's own rules
PrecedingDay(y, m, d) ==
    IF d > 1 THEN <<y, m, d - 1>>
    ELSE IF m > 1
    THEN <<y, m - 1,
           IF m - 1 = 2 THEN (IF IsLeap(y) THEN 29 ELSE 28)
           ELSE IF m - 1 \in {4, 6, 9, 11} THEN 30 ELSE 31>>
    ELSE <<y - 1, 12, 31>>

SixteenHundredOf(day) ==
    Pad4(day[1]) \o <<"-">> \o Pad2(day[2]) \o <<"-">> \o Pad2(day[3])
    \o <<"T", "1", "6", ":", "0", "0", ":", "0", "0", ".", "0", "0", "0", "Z">>

\* C4 (as claimed): parse_date fails exactly when the input matches neither
\* the partial month/day pattern nor a format the general parser accepts,
\* and a failure carries the offending input and the parser's message.
C4_FailsIffNothingMatches ==
    op = "parse_date" =>
        /\ ~dateOut.ok <=>
               (/\ ~MatchesPartialPattern(dateIn)
                /\ ~date_parser_parse(dateIn, LocalNow(nowUtc, tz)).ok)
        /\ ~dateOut.ok => (dateOut.input = dateIn /\ dateOut.cause # "")

\* C8: a partial date M/D with a valid month and day yields 16:00:00.000Z of
\* the preceding calendar day of the current year, rolling back over month
\* and year ends.
C8_PartialIsSixteenHundredOfPrecedingDay ==
    op = "parse_date" =>
        \A m \in 1..12 : \A d \in 1..DaysInMonth(CurrentYear, m) :
            SpellsPartial(dateIn, m, d) =>
                dateOut = [ok |-> TRUE,
                           val |-> SixteenHundredOf(PrecedingDay(CurrentYear, m, d))]

\* C8 witness: "1/1" parsed in 2024 gave December 31 of 2023
C8_Witness ==
    /\ op = "parse_date"
    /\ dateIn = <<"1", "/", "1">>
    /\ CurrentYear = 2024
    /\ dateOut.ok
    /\ dateOut.val = <<"2", "0", "2", "3", "-", "1", "2", "-", "3", "1", "T",
                       "1", "6", ":", "0", "0", ":", "0", "0", ".", "0", "0", "0", "Z">>

----------------------------------------------------------------------------
(* Claims about ph_time_from_utc, under SpecDisplay *)

\* exactly YYYY-MM-DDTHH:MM:SSZ: twenty characters, digits around the marks
MatchesStrictPattern(s) ==
    /\ Len(s) = 20
    /\ s[Len(s)] = "Z"
    /\ \A i \in 1..(Len(s) - 1) :
           IF i \in {5, 8} THEN s[i] = "-"
           ELSE IF i = 11 THEN s[i] = "T"
           ELSE IF i \in {14, 17} THEN s[i] = ":"
           ELSE s[i] \in DigitChars

\* C10 (as claimed): the strict parse is used only for strings of exactly the
\* form YYYY-MM-DDTHH:MM:SSZ; every other non-empty string, one ending in
\* .000Z included, goes to the general parser and yields the datetime eight
\* hours later whenever that parser accepts it.
C10_OnlyExactPatternIsStrict ==
    (/\ op = "ph_time_from_utc"
     /\ Truthy(utcIn)
     /\ ~MatchesStrictPattern(utcIn.s)
     /\ date_parser_parse(utcIn.s, LocalNow(nowUtc, tz)).ok
     /\ AddHours(date_parser_parse(utcIn.s, LocalNow(nowUtc, tz)).t, 8).ok)
    => phOut = [ok |-> TRUE,
                t |-> AddHours(date_parser_parse(utcIn.s, LocalNow(nowUtc, tz)).t, 8).t]

----------------------------------------------------------------------------
(* Claims about clean_html_content, under SpecText *)

\* a '<' with a '>' somewhere after it
HasTag(s) == \E i \in 1..Len(s) : \E j \in (i + 1)..Len(s) : s[i] = "<" /\ s[j] = ">"

\* no whitespace at either end and no two whitespace characters side by side
SingleSpaced(s) ==
    /\ s # <<>> => (~IsWhite(s[1]) /\ ~IsWhite(s[Len(s)]))
    /\ \A i \in 1..(Len(s) - 1) : ~(IsWhite(s[i]) /\ IsWhite(s[i + 1]))

\* C5 (as claimed): the result of clean_html_content keeps no tag of the
\* entity-decoded input, a tag that spans a line break included, and is
\* single-spaced and trimmed.  Where the decoded input holds no '&', every
\* '<' and '>' of the result comes from the decoded input.
C5_ResultIsTagFreeAndSingleSpaced ==
    (op = "clean_html_content" /\ IsStr(textIn))
    => /\ ~Contains(html_unescape(textIn.s), "&") => ~HasTag(textOut)
       /\ SingleSpaced(textOut)

\* C11 (as claimed): fix_encoding is idempotent: applied to a text it has
\* returned, it returns that text unchanged.
C11_FixEncodingIsIdempotent ==
    op = "fix_encoding_again" => textOut = textIn.s

----------------------------------------------------------------------------
(* Claims about extract_speech_data, under SpecExtract *)

\* the raw SDate is absent, null, empty, or a string the display conversion
\* cannot turn into a datetime
NoUsableSDate(speech) ==
    \/ speech.SDate.k # "str"
    \/ speech.SDate.s = <<>>
    \/ ~ph_time_from_utc(speech.SDate, LocalNow(nowUtc, tz)).ok

C7_SDateIsStringEmptyWhenMissingOrNull ==
    op = "extract_speech_data" =>
        \A i \in 1..Len(speechesIn) :
            /\ i <= Len(speechesOut)
            /\ IsStr(speechesOut[i].SDate)
            /\ IsStr(speechesIn[i].SDate) => speechesOut[i].SDate = speechesIn[i].SDate
            /\ ~IsStr(speechesIn[i].SDate) => speechesOut[i].SDate = PyStr(<<>>)

\* the instant a string of the form YYYY-MM-DDTHH:MM:SSZ spells
InstantOf(s) ==
    DT(NumVal(SubSeq(s, 1, 4)), NumVal(SubSeq(s, 6, 7)), NumVal(SubSeq(s, 9, 10)),
       NumVal(SubSeq(s, 12, 13)), NumVal(SubSeq(s, 15, 16)), NumVal(SubSeq(s, 18, 19)))

\* the raw SDate is of the exact form and names an instant of the calendar
SpellsInstant(v) ==
    /\ IsStr(v)
    /\ MatchesStrictPattern(v.s)
    /\ ValidDateTime(InstantOf(v.s).y, InstantOf(v.s).m, InstantOf(v.s).d,
                     InstantOf(v.s).H, InstantOf(v.s).M, InstantOf(v.s).S)

\* the calendar day after y-m-d
FollowingDay(y, m, d) ==
    IF d < DaysInMonth(y, m) THEN <<y, m, d + 1>>
    ELSE IF m < 12 THEN <<y, m + 1, 1>>
    ELSE <<y + 1, 1, 1>>

\* the day of the instant eight hours after t: the same day before 16:00,
\* the following day from 16:00 on
ShiftedDay(t) == IF t.H < 16 THEN <<t.y, t.m, t.d>> ELSE FollowingDay(t.y, t.m, t.d)

\* the calendar has a day for the instant eight hours after t
ShiftedDayExists(t) == ShiftedDay(t)[1] <= 9999

\* "Month DD, YYYY"
MonthDayYear(day) ==
    MonthNames[day[2]] \o <<" ">> \o Pad2(day[3]) \o <<",", " ">> \o Pad4(day[1])

\* C12 (amended): for every SDate of the exact form YYYY-MM-DDTHH:MM:SSZ whose
\* instant shifted by +8 hours is still within the calendar (it is not 16:00
\* or later on 9999-12-31), Date is "Month DD, YYYY" of the shifted instant:
\* the UTC day before 16:00, the following day from 16:00 on.
C12_DateIsDayOfShiftedInstant ==
    op = "extract_speech_data" =>
        \A i \in 1..Len(speechesIn) :
            (SpellsInstant(speechesIn[i].SDate)
             /\ ShiftedDayExists(InstantOf(speechesIn[i].SDate.s)))
            => speechesOut[i].Date =
                   PyStr(MonthDayYear(ShiftedDay(InstantOf(speechesIn[i].SDate.s))))

\* C12 witness: 15:59:59 on February 28 of a leap year stays on that day and
\* 16:00:00 moves to February 29
C12_Witness ==
    /\ op = "extract_speech_data"
    /\ Len(speechesOut) = 2
    /\ speechesIn[1].SDate = PyStr(IsoSeconds(DT(2024, 2, 28, 15, 59, 59)) \o <<"Z">>)
    /\ speechesOut[1].Date.s = <<"F", "e", "b", "r", "u", "a", "r", "y", " ",
                                 "2", "8", ",", " ", "2", "0", "2", "4">>
    /\ speechesIn[2].SDate = PyStr(IsoSeconds(DT(2024, 2, 28, 16, 0, 0)) \o <<"Z">>)
    /\ speechesOut[2].Date.s = <<"F", "e", "b", "r", "u", "a", "r", "y", " ",
                                 "2", "9", ",", " ", "2", "0", "2", "4">>

\* C12 (as claimed): the same for every SDate of the exact form, the last
\* eight hours of 9999-12-31 included.
C12_AsClaimed ==
    op = "extract_speech_data" =>
        \A i \in 1..Len(speechesIn) :
            SpellsInstant(speechesIn[i].SDate)
            => speechesOut[i].Date =
                   PyStr(MonthDayYear(ShiftedDay(InstantOf(speechesIn[i].SDate.s))))

\* the characters of the date strings and of the display dates, in code point
\* order
CodeOrder ==
    <<" ", ",", "-", ".", "/", "0", "1", "2", "3", "4", "5", "6", "7", "8", "9", ":",
      "A", "D", "F", "J", "M", "N", "O", "S", "T", "Z",
      "a", "b", "c", "e", "g", "h", "i", "l", "m", "n", "o", "p", "r", "s", "t",
      "u", "v", "y">>

Rank(c) == CHOOSE n \in 1..Len(CodeOrder) : CodeOrder[n] = c

\* a < b as strings: at the first difference a has ended or has the smaller
\* character
LexLess(a, b) ==
    \E k \in 1..Len(b) :
        /\ \A i \in 1..(k - 1) : i <= Len(a) /\ a[i] = b[i]
        /\ k > Len(a) \/ Rank(a[k]) < Rank(b[k])

\* the seconds of its day that have passed at t
SecondOfDay(t) == (t.H * 3600) + (t.M * 60) + t.S

\* t is an earlier instant than u
Earlier(t, u) ==
    \/ ToOrdinal(t.y, t.m, t.d) < ToOrdinal(u.y, u.m, u.d)
    \/ /\ ToOrdinal(t.y, t.m, t.d) = ToOrdinal(u.y, u.m, u.d)
       /\ SecondOfDay(t) < SecondOfDay(u)

\* C13 (amended): for two raw records whose SDate values are distinct and
\* both of the fixed-width form YYYY-MM-DDTHH:MM:SSZ, the SDate of the first
\* normalized record is lexically smaller than that of the second exactly
\* when its instant is the earlier one.
C13_LexicalOrderIsChronological ==
    op = "extract_speech_data" =>
        \A i, j \in 1..Len(speechesIn) :
            (/\ SpellsInstant(speechesIn[i].SDate)
             /\ SpellsInstant(speechesIn[j].SDate)
             /\ speechesIn[i].SDate # speechesIn[j].SDate)
            => /\ IsStr(speechesOut[i].SDate) /\ IsStr(speechesOut[j].SDate)
               /\ LexLess(speechesOut[i].SDate.s, speechesOut[j].SDate.s)
                  <=> Earlier(InstantOf(speechesIn[i].SDate.s),
                              InstantOf(speechesIn[j].SDate.s))

\* C13 witness: a record of 2023-12-31 before one of 2024-02-28, in both orders
C13_Witness ==
    /\ op = "extract_speech_data"
    /\ Len(speechesOut) = 2
    /\ speechesIn[1].SDate = PyStr(IsoSeconds(DT(2023, 12, 31, 16, 0, 0)) \o <<"Z">>)
    /\ speechesIn[2].SDate = PyStr(IsoSeconds(DT(2024, 2, 28, 15, 59, 59)) \o <<"Z">>)
    /\ LexLess(speechesOut[1].SDate.s, speechesOut[2].SDate.s)
    /\ ~LexLess(speechesOut[2].SDate.s, speechesOut[1].SDate.s)

\* the instant the conversion reads from an SDate, shifted by eight hours
ReadInstant(v) == ph_time_from_utc(v, LocalNow(nowUtc, tz))

\* C13 (as claimed): the same for any two raw records with distinct SDate
\* values that denote instants, whatever their form.
C13_AsClaimed ==
    op = "extract_speech_data" =>
        \A i, j \in 1..Len(speechesIn) :
            (/\ Truthy(speechesIn[i].SDate) /\ Truthy(speechesIn[j].SDate)
             /\ ReadInstant(speechesIn[i].SDate).ok
             /\ ReadInstant(speechesIn[j].SDate).ok
             /\ speechesIn[i].SDate # speechesIn[j].SDate)
            => /\ IsStr(speechesOut[i].SDate) /\ IsStr(speechesOut[j].SDate)
               /\ LexLess(speechesOut[i].SDate.s, speechesOut[j].SDate.s)
                  <=> Earlier(ReadInstant(speechesIn[i].SDate).t,
                              ReadInstant(speechesIn[j].SDate).t)

\* the normalized record of a raw record extracted on its own
ExtractedAlone(speech) == extract_speech_data(<<speech>>, LocalNow(nowUtc, tz))[1]

\* C15: extract_speech_data returns as many records as it was given, in the
\* same order, the i-th being what the i-th raw record gives on its own; a
\* record whose SDate cannot be read gets Date "" without a change to any
\* other record, and the raw records are left as they were.
C15_RecordsAreExtractedIndependently ==
    [][op' = "extract_speech_data" =>
          /\ speechesIn' = speechesIn
          /\ Len(speechesOut') = Len(speechesIn)
          /\ \A i \in 1..Len(speechesIn) :
                 /\ speechesOut'[i] = ExtractedAlone(speechesIn[i])
                 /\ NoUsableSDate(speechesIn[i]) => speechesOut'[i].Date = PyStr(<<>>)]_vars

\* C15 witness: an unreadable SDate first, a readable one second; the first
\* record has no Date and the second has its own
C15_Witness ==
    /\ op = "extract_speech_data"
    /\ Len(speechesOut) = 2
    /\ speechesIn[1].SDate = PyStr(<<"g", "a", "r", "b", "a", "g", "e">>)
    /\ speechesOut[1].Date = PyStr(<<>>)
    /\ speechesOut[1].Title = PyStr(<<"T", "a", "l", "k">>)
    /\ speechesIn[2].SDate = PyStr(IsoSeconds(DT(2023, 1, 1, 0, 0, 0)) \o <<"Z">>)
    /\ speechesOut[2].Date = PyStr(FormatDisplay(DT(2023, 1, 1, 8, 0, 0)))

====
